---- MODULE Spec2Model ----
(***************************************************************************)
(* PostHog -> MySQL click-event sync (src/main.py, src/utils.py,           *)
(* src/sqlalchemy_setup.py).                                               *)
(*                                                                         *)
(* Three specifications share the definitions below:                       *)
(*   SpecTransform  transform_event applied to one raw event               *)
(*   Spec           one `python main.py` process: import-time setup,       *)
(*                  configuration, paginated fetch, store; re-run          *)
(*   SpecConc       two concurrent store_events calls on one table         *)
(***************************************************************************)
EXTENDS Integers, Sequences, FiniteSets, TLC

(***************************************************************************)
(* JSON values.  A dictionary lookup yields one of three kinds: the key is *)
(* absent, the key holds JSON null, or the key holds a string.             *)
(***************************************************************************)
Absent == [k |-> "absent", v |-> ""]

Null == [k |-> "null", v |-> ""]

Val(s) == [k |-> "val", v |-> s]

\* Python None: what dict.get returns for an absent key or a JSON null.
None == Null

\* dict.get(key) with the default None
Get(j) == IF j.k = "val" THEN j ELSE None

\* dict.get(key, "")
GetOrEmpty(j) == IF j.k = "absent" THEN Val("") ELSE j

\* Python truthiness of a string-or-None value
Truthy(j) == j.k = "val" /\ j.v # ""

\* Python's `a or b`
Or(a, b) == IF Truthy(a) THEN a ELSE b

\* A JSON object as a function from its present keys to values
EmptyDict == [x \in {} |-> Null]

DictGet(d, key) == IF key \in DOMAIN d THEN Get(d[key]) ELSE None

(***************************************************************************)
(* Columns of ClickEvent that transform_event fills from `properties` by a *)
(* fixed key (element_text is handled apart: it has a fallback).           *)
(***************************************************************************)
PropertyKey ==
    [ current_url      |-> "$current_url",
      pathname         |-> "$pathname",
      event_type       |-> "$event_type",
      browser          |-> "$browser",
      os               |-> "$os",
      country_code     |-> "$geoip_country_code",
      referrer         |-> "$referrer",
      referring_domain |-> "$referring_domain",
      city_name        |-> "$geoip_city_name",
      region_name      |-> "$geoip_subdivision_1_name",
      country_name     |-> "$geoip_country_name",
      postal_code      |-> "$geoip_postal_code",
      latitude         |-> "$geoip_latitude",
      longitude        |-> "$geoip_longitude",
      device_type      |-> "$device_type",
      os_version       |-> "$os_version",
      browser_version  |-> "$browser_version",
      viewport_width   |-> "$viewport_width",
      viewport_height  |-> "$viewport_height",
      session_id       |-> "$session_id" ]

PropertyColumns == DOMAIN PropertyKey

(***************************************************************************)
(* Timestamps.  A timestamp string is a sequence of tokens: a date-time    *)
(* body, optionally followed by the UTC marker "Z".  fromisoformat accepts *)
(* exactly one body token (with or without fractional seconds).            *)
(***************************************************************************)
IsoBodies == {"2025-09-15T10:00:00", "2025-09-15T10:00:00.500000"}

EndsWithZ(s) == Len(s) > 0 /\ s[Len(s)] = "Z"

fromisoformat(s) ==
    IF Len(s) = 1 /\ s[1] \in IsoBodies
    THEN [ok |-> TRUE, kind |-> "parsed", iso |-> s[1], at |-> 0]
    ELSE [ok |-> FALSE, kind |-> "ValueError", iso |-> "", at |-> 0]

\* utils.py _parse_iso_datetime: strip one trailing Z, then fromisoformat
\* (the format loop and the fallback all call fromisoformat on the same text).
_parse_iso_datetime(dt_str) ==
    LET stripped == IF EndsWithZ(dt_str)
                    THEN SubSeq(dt_str, 1, Len(dt_str) - 1)
                    ELSE dt_str
    IN  fromisoformat(stripped)

utcnow(now) == [ok |-> TRUE, kind |-> "utcnow", iso |-> "", at |-> now]

(***************************************************************************)
(* json.dumps(event): the token sequence of the serialization, one member  *)
(* per present top-level key, in the order id, distinct_id, timestamp,     *)
(* properties, elements.                                                   *)
(***************************************************************************)
DumpScalar(j) == IF j.k = "null" THEN <<"null">> ELSE <<"str", j.v>>

DumpMember(key, j) == IF j.k = "absent" THEN <<>> ELSE <<key, ":">> \o DumpScalar(j)

DumpTimestamp(t) ==
    IF t.k = "absent" THEN <<>>
    ELSE IF t.k = "null" THEN <<"timestamp", ":", "null">>
    ELSE <<"timestamp", ":", "str">> \o t.v

RECURSIVE DumpDictKeys(_, _)
DumpDictKeys(d, keys) ==
    IF keys = {} THEN <<>>
    ELSE LET key == CHOOSE x \in keys : TRUE
         IN  DumpMember(key, d[key]) \o DumpDictKeys(d, keys \ {key})

DumpDict(d) == <<"{">> \o DumpDictKeys(d, DOMAIN d) \o <<"}">>

RECURSIVE DumpList(_)
DumpList(l) == IF l = <<>> THEN <<>> ELSE DumpDict(Head(l)) \o DumpList(Tail(l))

DumpContainer(key, c, body) ==
    IF c.k = "absent" THEN <<>>
    ELSE IF c.k = "null" THEN <<key, ":", "null">>
    ELSE <<key, ":">> \o body

json_dumps(event) ==
    <<"{">>
    \o DumpMember("id", event.id)
    \o DumpMember("distinct_id", event.distinct_id)
    \o DumpTimestamp(event.timestamp)
    \o DumpContainer("properties", event.properties, DumpDict(event.properties.v))
    \o DumpContainer("elements", event.elements,
                     <<"[">> \o DumpList(event.elements.v) \o <<"]">>)
    \o <<"}">>

(***************************************************************************)
(* transform_event                                                         *)
(***************************************************************************)
\* event.get("properties", {}) or {}
PropsOf(event) == IF event.properties.k = "val" THEN event.properties.v ELSE EmptyDict

\* event.get("elements", []) or []
ElementsOf(event) == IF event.elements.k = "val" THEN event.elements.v ELSE <<>>

\* elements[0] if elements else {}
FirstEl(event) == IF ElementsOf(event) # <<>> THEN Head(ElementsOf(event)) ELSE EmptyDict

\* Mutant of TimestampOf: no fallback to the current time
TimestampOfNoFallback(event, now) == _parse_iso_datetime(event.timestamp.v)

\* ts_str = event.get("timestamp"); parsed if truthy, else the current time
TimestampOf(event, now) ==
    IF event.timestamp.k = "val" /\ event.timestamp.v # <<>>
    THEN _parse_iso_datetime(event.timestamp.v)
    ELSE utcnow(now)

\* Mutant of ElementText: the operands of `or` swapped
ElementTextElementFirst(event) ==
    Or(DictGet(FirstEl(event), "text"), DictGet(PropsOf(event), "$el_text"))

\* element_text = props.get("$el_text") or first_el.get("text")
ElementText(event) ==
    Or(DictGet(PropsOf(event), "$el_text"), DictGet(FirstEl(event), "text"))

\* The ClickEvent built by transform_event, or the ValueError it raises.
transform_event(event, now) ==
    LET ts == TimestampOf(event, now)
    IN  IF ~ts.ok
        THEN [ok |-> FALSE, err |-> "ValueError"]
        ELSE [ok  |-> TRUE,
              rec |-> [ id           |-> GetOrEmpty(event.id),
                        distinct_id  |-> GetOrEmpty(event.distinct_id),
                        timestamp    |-> ts,
                        element_text |-> ElementText(event),
                        element_tag  |-> DictGet(FirstEl(event), "tag_name"),
                        element_href |-> DictGet(FirstEl(event), "href"),
                        cols         |-> [c \in PropertyColumns |->
                                            DictGet(PropsOf(event), PropertyKey[c])],
                        raw_data     |-> json_dumps(event) ]]

(***************************************************************************)
(* State                                                                   *)
(***************************************************************************)
VARIABLES
    clock,          \* datetime.utcnow() as a number
    evIn,           \* SpecTransform: the raw event handed to transform_event
    tOut,           \* SpecTransform: what transform_event produced
    tpc,            \* SpecTransform: "in" | "out" | "raised"
    env,            \* names of the required environment values that are set
    dbActs,         \* per process: database activity so far
    requests,       \* fetch_events: the HTTP requests sent, in order
    served,         \* the provider's answers, in order (replayed on a re-run)
    events,         \* fetch_events: the accumulator
    next_url,       \* fetch_events: the loop variable ("" is None)
    table,          \* click_events: the committed rows
    pc,             \* per process: position
    run,            \* per process: number of the current execution
    batch,          \* store_events: its argument
    idx,            \* store_events: position of the for loop in batch
    pending,        \* Session: objects added and not yet flushed
    writes,         \* transaction: rows inserted and not yet committed
    identity,       \* Session: primary keys in the identity map
    snapTaken,      \* transaction: whether its read view exists
    snapIds,        \* transaction: primary keys visible in its read view
    inserted_count, \* store_events: the counter
    err,            \* per process: the exception that ended the run ("" none)
    result,         \* per process: the value returned (-1 none)
    missed,         \* per process: ids whose existence check found no row
    outcomes,       \* Main: [result, err] of each finished earlier run
    table0          \* Main: the table when the current run started

transformVars == <<clock, evIn, tOut, tpc>>

processVars == <<env, dbActs, requests, served, events, next_url, outcomes, table0>>

storeVars == <<table, pc, run, batch, idx, pending, writes, identity,
               snapTaken, snapIds, inserted_count, err, result, missed>>

vars == <<transformVars, processVars, storeVars>>

Procs == {1, 2}

\* The process that runs main.py in Spec
Main == 1

(***************************************************************************)
(* The click_events table and the engine's transactions (MySQL/InnoDB at   *)
(* its default isolation level, which the engine URL selects).             *)
(* A row is the ClickEvent plus a hidden row identity: the process, the    *)
(* run and the batch position that inserted it.                            *)
(***************************************************************************)
Row(rec, p, r, k) == [rec |-> rec, by |-> <<p, r, k>>]

Ids(rows) == {r.rec.id : r \in rows}

RowsBy(p, r) == {x \in table : x.by[1] = p /\ x.by[2] = r}

\* Mutant of DuplicateKey: id is not a key of the table
NoPrimaryKey(rows, rec) == FALSE

\* ClickEvent.id is the primary key: an INSERT of an id that a row already
\* carries is rejected.
DuplicateKey(rows, rec) == \E r \in rows : r.rec.id = rec.id

\* distinct_id is nullable=False (raw_data and timestamp are never None here)
NotNullViolation(rec) == rec.distinct_id.k = "null"

OtherWrites(p) == UNION {writes[q] : q \in Procs \ {p}}

\* The ClickEvent for the event at the loop position
Model(p) == transform_event(batch[p][idx[p]], clock).rec

\* A flush is possible when the session holds pending objects
Flushing(p) == pc[p] \in {"get", "commit"} /\ pending[p] # <<>>

\* The INSERT of the first pending row waits for another transaction's
\* uncommitted row with the same primary key.
Blocked(p) ==
    /\ Flushing(p)
    /\ ~NotNullViolation(Head(pending[p]).rec)
    /\ ~DuplicateKey(table \cup writes[p], Head(pending[p]).rec)
    /\ DuplicateKey(OtherWrites(p), Head(pending[p]).rec)

(***************************************************************************)
(* store_events                                                            *)
(***************************************************************************)
\* SessionLocal() and the first statements of store_events
StoreBegin(p, b) ==
    /\ batch' = [batch EXCEPT ![p] = b]
    /\ idx' = [idx EXCEPT ![p] = 1]
    /\ inserted_count' = [inserted_count EXCEPT ![p] = 0]
    /\ pending' = [pending EXCEPT ![p] = <<>>]
    /\ writes' = [writes EXCEPT ![p] = {}]
    /\ identity' = [identity EXCEPT ![p] = {}]
    /\ snapTaken' = [snapTaken EXCEPT ![p] = FALSE]
    /\ snapIds' = [snapIds EXCEPT ![p] = {}]
    /\ missed' = [missed EXCEPT ![p] = {}]
    /\ dbActs' = [dbActs EXCEPT ![p] = @ \cup {"session"}]
    /\ pc' = [pc EXCEPT ![p] = "loop"]

\* The session and the locals of the call are gone once it has ended:
\* db.close() empties the identity map and ends the transaction.
CloseSession(p) ==
    /\ identity' = [identity EXCEPT ![p] = {}]
    /\ snapTaken' = [snapTaken EXCEPT ![p] = FALSE]
    /\ snapIds' = [snapIds EXCEPT ![p] = {}]
    /\ idx' = [idx EXCEPT ![p] = 1]
    /\ inserted_count' = [inserted_count EXCEPT ![p] = 0]
    /\ pending' = [pending EXCEPT ![p] = <<>>]
    /\ writes' = [writes EXCEPT ![p] = {}]

\* Mutant of ExceptHandler: the handler commits what was flushed
ExceptHandlerCommits(p, e) ==
    /\ table' = table \cup writes[p]
    /\ err' = [err EXCEPT ![p] = e]
    /\ pc' = [pc EXCEPT ![p] = "failed"]
    /\ CloseSession(p)
    /\ UNCHANGED <<transformVars, processVars, run, batch, result, missed>>

\* except Exception: db.rollback(); raise   finally: db.close()
ExceptHandler(p, e) ==
    /\ UNCHANGED table
    /\ err' = [err EXCEPT ![p] = e]
    /\ pc' = [pc EXCEPT ![p] = "failed"]
    /\ CloseSession(p)
    /\ UNCHANGED <<transformVars, processVars, run, batch, result, missed>>

\* Mutant of Exists: the existence check never finds a row
ExistsNever(view, p, id) == FALSE

\* exists = db.get(ClickEvent, model.id), once it reaches the database:
\* the rows of the read view and the transaction's own rows.
Exists(view, p, id) == id \in view \cup Ids(writes[p])

\* One SELECT opens the read view that every later SELECT of the
\* transaction reads from.
ReadView(p) == IF snapTaken[p] THEN snapIds[p] ELSE Ids(table)

\* Mutant of Autoflush: sessionmaker(bind=engine, autoflush=False)
AutoflushOff == FALSE

\* sessionmaker(bind=engine): autoflush is on, a query flushes pending objects
Autoflush == TRUE

\* Mutant of CountAfter: skipped events are counted too
CountAfterCountsSkipped(count, exists) == count + 1

\* `if exists: continue` ... `inserted_count += 1`
CountAfter(count, exists) == IF exists THEN count ELSE count + 1

\* for evt in events: model = transform_event(evt); the identity-map part of
\* db.get; or, past the last event, on to db.commit()
Iterate(p) ==
    /\ pc[p] = "loop"
    /\ IF idx[p] > Len(batch[p])
       THEN /\ pc' = [pc EXCEPT ![p] = "commit"]
            /\ UNCHANGED <<transformVars, processVars, table, run, batch, idx,
                           pending, writes, identity, snapTaken, snapIds,
                           inserted_count, err, result, missed>>
       ELSE IF ~transform_event(batch[p][idx[p]], clock).ok
       THEN ExceptHandler(p, "ValueError")
       ELSE IF Model(p).id \in identity[p]
       THEN /\ idx' = [idx EXCEPT ![p] = @ + 1]
            /\ UNCHANGED <<transformVars, processVars, table, pc, run, batch,
                           pending, writes, identity, snapTaken, snapIds,
                           inserted_count, err, result, missed>>
       ELSE /\ pc' = [pc EXCEPT ![p] = "get"]
            /\ UNCHANGED <<transformVars, processVars, table, run, batch, idx,
                           pending, writes, identity, snapTaken, snapIds,
                           inserted_count, err, result, missed>>

\* The session flushes its first pending object: one INSERT.
Flush(p) ==
    /\ Flushing(p)
    /\ pc[p] = "get" => Autoflush
    /\ LET row == Head(pending[p])
       IN  IF NotNullViolation(row.rec)
           THEN ExceptHandler(p, "IntegrityError:1048")
           ELSE IF DuplicateKey(table \cup writes[p], row.rec)
           THEN ExceptHandler(p, "IntegrityError:1062")
           ELSE /\ ~DuplicateKey(OtherWrites(p), row.rec)
                /\ writes' = [writes EXCEPT ![p] = @ \cup {row}]
                /\ pending' = [pending EXCEPT ![p] = Tail(@)]
                /\ identity' = [identity EXCEPT ![p] = @ \cup {row.rec.id}]
                /\ UNCHANGED <<transformVars, processVars, table, pc, run, batch,
                               idx, snapTaken, snapIds, inserted_count, err,
                               result, missed>>

\* The SELECT of db.get, then `if exists: continue`, else db.add(model) and
\* inserted_count += 1
Select(p) ==
    /\ pc[p] = "get"
    /\ Autoflush => pending[p] = <<>>
    /\ snapTaken' = [snapTaken EXCEPT ![p] = TRUE]
    /\ snapIds' = [snapIds EXCEPT ![p] = ReadView(p)]
    /\ IF Exists(ReadView(p), p, Model(p).id)
       THEN /\ identity' = [identity EXCEPT ![p] = @ \cup {Model(p).id}]
            /\ UNCHANGED <<pending, missed>>
       ELSE /\ pending' = [pending EXCEPT ![p] =
                             Append(@, Row(Model(p), p, run[p], idx[p]))]
            /\ missed' = [missed EXCEPT ![p] = @ \cup {Model(p).id}]
            /\ UNCHANGED identity
    /\ inserted_count' = [inserted_count EXCEPT ![p] =
                            CountAfter(@, Exists(ReadView(p), p, Model(p).id))]
    /\ idx' = [idx EXCEPT ![p] = @ + 1]
    /\ pc' = [pc EXCEPT ![p] = "loop"]
    /\ UNCHANGED <<transformVars, processVars, table, run, batch, writes, err,
                   result>>

\* Mutant of Committed: the commit reloads the table from the batch
CommittedReloads(rows, new) == new

\* COMMIT of a transaction whose only statements were INSERTs: its rows join
\* the table.
Committed(rows, new) == rows \cup new

\* db.commit() once the flush is through; db.close(); return inserted_count
Commit(p) ==
    /\ pc[p] = "commit"
    /\ pending[p] = <<>>
    /\ table' = Committed(table, writes[p])
    /\ result' = [result EXCEPT ![p] = inserted_count[p]]
    /\ pc' = [pc EXCEPT ![p] = "done"]
    /\ CloseSession(p)
    /\ UNCHANGED <<transformVars, processVars, run, batch, err, missed>>

\* The connection fails under a statement of the session (the SELECT, an
\* INSERT or the COMMIT): OperationalError
ConnectionLost(p) ==
    /\ pc[p] \in {"get", "commit"}
    /\ ExceptHandler(p, "OperationalError:2013")

\* Two transactions wait for each other's uncommitted row: the engine aborts
\* one of them, whose INSERT raises OperationalError (deadlock found).
DeadlockAbort(p) ==
    /\ Blocked(p)
    /\ \E q \in Procs \ {p} : Blocked(q)
    /\ ExceptHandler(p, "OperationalError:1213")

(***************************************************************************)
(* Bounds and inputs                                                       *)
(***************************************************************************)
MaxBatch == 2

MaxPages == 2

MaxPageLen == 2

MaxRuns == 2

MaxClock == 1

RECURSIVE SeqsUpTo(_, _)
SeqsUpTo(S, n) ==
    IF n = 0 THEN {<<>>}
    ELSE LET shorter == SeqsUpTo(S, n - 1)
         IN  shorter \cup {Append(q, x) : q \in {y \in shorter : Len(y) = n - 1}, x \in S}

Event(id, did, ts, props, els) ==
    [id |-> id, distinct_id |-> did, timestamp |-> ts, properties |-> props,
     elements |-> els]

Dict(d) == [k |-> "val", v |-> d]

NoDict == [k |-> "absent", v |-> EmptyDict]

NullDict == [k |-> "null", v |-> EmptyDict]

List(l) == [k |-> "val", v |-> l]

NoList == [k |-> "absent", v |-> <<>>]

NullList == [k |-> "null", v |-> <<>>]

Ts(s) == [k |-> "val", v |-> s]

NoTs == [k |-> "absent", v |-> <<>>]

NullTs == [k |-> "null", v |-> <<>>]

Button == [tag_name |-> Val("button"), href |-> Null, text |-> Val("Click")]

Link == [tag_name |-> Val("a"), href |-> Val("/pricing")]

Blank == [tag_name |-> Val("div"), text |-> Val("")]

\* Raw events for transform_event: every combination of the listed shapes
\* of the five top-level keys.
RawEvents ==
    { Event(id, did, ts, props, els) :
        id \in {Absent, Val("a")},
        did \in {Absent, Null, Val("u1")},
        ts \in {NoTs, NullTs, Ts(<<>>), Ts(<<"2025-09-15T10:00:00">>),
                Ts(<<"2025-09-15T10:00:00", "Z">>),
                Ts(<<"2025-09-15T10:00:00.500000", "Z">>), Ts(<<"yesterday">>)},
        props \in {NoDict, NullDict, Dict(EmptyDict),
                   Dict([x \in {"$el_text"} |-> Val("Buy")]),
                   Dict([x \in {"$el_text"} |-> Val("")]),
                   Dict([x \in {"$el_text"} |-> Null]),
                   Dict([x \in {"$current_url"} |-> Val("https://x/y")]),
                   Dict([x \in {"$el_text", "$browser"} |-> Val("Buy")])},
        els \in {NoList, NullList, List(<<>>), List(<<Button>>), List(<<Link>>),
                 List(<<Blank, Button>>)} }

\* Events handed to store_events: two events with id "a" and different
\* payloads, one with id "b", one whose timestamp does not parse, one whose
\* distinct_id is null.
EvA1 == Event(Val("a"), Val("u1"), Ts(<<"2025-09-15T10:00:00", "Z">>),
              Dict([x \in {"$el_text"} |-> Val("Buy")]), List(<<Button>>))

EvA2 == Event(Val("a"), Val("u2"), Ts(<<"2025-09-15T10:00:00.500000", "Z">>),
              NoDict, List(<<Link>>))

EvB1 == Event(Val("b"), Val("u1"), NoTs, NoDict, NoList)

EvBadTs == Event(Val("b"), Val("u1"), Ts(<<"yesterday">>), NoDict, NoList)

EvNullDid == Event(Val("b"), Null, NoTs, NoDict, NoList)

StoreEvents == {EvA1, EvA2, EvB1, EvBadTs, EvNullDid}

Batches == SeqsUpTo(StoreEvents, MaxBatch)

\* Events the provider serves
FeedEvents == {EvA1, EvB1}

\* f"{base_url}/api/projects/{project_id}/events/"
URL0 == "https://us.posthog.com/api/projects/1/events/"

CURSOR == "https://us.posthog.com/api/projects/1/events/?after=x&limit=100&offset=100"

\* data.get("next"): "" stands for null or absent
Cursors == {"", URL0, CURSOR}

OkPages == [status : {200}, results : SeqsUpTo(FeedEvents, MaxPageLen), next : Cursors]

ErrorPages == [status : {404, 503}, results : {<<>>}, next : {""}]

\* The provider's answer to request n; the last page the bound allows carries
\* no cursor.
PagesAt(n) ==
    IF n < MaxPages THEN OkPages \cup ErrorPages
    ELSE {pg \in OkPages : pg.next = ""} \cup ErrorPages

RequiredEnv == {"POSTHOG_API_KEY", "POSTHOG_PROJECT_ID", "DB_USER", "DB_PASS",
                "DB_HOST", "DB_PORT", "DB_NAME"}

(***************************************************************************)
(* One execution of main.py                                                *)
(***************************************************************************)
\* sqlalchemy_setup.py: `if not all([...])`
DbConfigured(e) == {"DB_USER", "DB_PASS", "DB_HOST", "DB_PORT", "DB_NAME"} \subseteq e

\* utils.py _get_posthog_config: `if not api_key or not project_id`
_get_posthog_config(e) == {"POSTHOG_API_KEY", "POSTHOG_PROJECT_ID"} \subseteq e

\* Mutant of raise_for_status: the status is never checked
RaiseForStatusOmitted(status) == FALSE

\* requests' Response.raise_for_status raises for 4xx and 5xx
raise_for_status(status) == 400 <= status /\ status < 600

\* The request fetch_events sends for next_url: the query parameters go with
\* it only `if next_url == url`
Request(u) == [url |-> u, params |-> (u = URL0)]

\* Mutant of Extend: events = batch
ExtendOverwrites(acc, results) == results

\* events.extend(batch)
Extend(acc, results) == acc \o results

\* `from utils import sync_posthog_events`, which imports sqlalchemy_setup:
\* load_dotenv, the DB_* check, create_engine, Base.metadata.create_all
ImportSetup ==
    /\ pc[Main] = "start"
    /\ IF DbConfigured(env)
       THEN /\ dbActs' = [dbActs EXCEPT ![Main] = @ \cup {"create_engine", "create_all"}]
            /\ pc' = [pc EXCEPT ![Main] = "main"]
            /\ UNCHANGED err
       ELSE /\ pc' = [pc EXCEPT ![Main] = "config_error"]
            /\ err' = [err EXCEPT ![Main] = "EnvironmentError"]
            /\ UNCHANGED dbActs
    /\ UNCHANGED <<transformVars, env, requests, served, events, next_url, outcomes,
                   table0, table, run, batch, idx, pending, writes, identity,
                   snapTaken, snapIds, inserted_count, result, missed>>

\* main() -> sync_posthog_events -> fetch_events, up to its loop
SyncStart ==
    /\ pc[Main] = "main"
    /\ IF _get_posthog_config(env)
       THEN /\ next_url' = URL0
            /\ pc' = [pc EXCEPT ![Main] = "fetch"]
            /\ UNCHANGED err
       ELSE /\ pc' = [pc EXCEPT ![Main] = "config_error"]
            /\ err' = [err EXCEPT ![Main] = "EnvironmentError"]
            /\ UNCHANGED next_url
    /\ requests' = <<>>
    /\ events' = <<>>
    /\ UNCHANGED <<transformVars, env, dbActs, served, outcomes, table0, table, run,
                   batch, idx, pending, writes, identity, snapTaken, snapIds,
                   inserted_count, result, missed>>

\* One turn of `while next_url`: session.get, raise_for_status, extend, next.
\* The provider answers request n of a re-run as it answered request n before.
FetchPage ==
    /\ pc[Main] = "fetch"
    /\ next_url # ""
    /\ LET n == Len(requests) + 1
       IN  \E page \in (IF n <= Len(served) THEN {served[n]} ELSE PagesAt(n)) :
             /\ requests' = Append(requests, Request(next_url))
             /\ served' = IF n <= Len(served) THEN served ELSE Append(served, page)
             /\ IF raise_for_status(page.status)
                THEN /\ pc' = [pc EXCEPT ![Main] = "failed"]
                     /\ err' = [err EXCEPT ![Main] = "HTTPError"]
                     /\ UNCHANGED <<events, next_url>>
                ELSE /\ events' = Extend(events, page.results)
                     /\ next_url' = page.next
                     /\ UNCHANGED <<pc, err>>
    /\ UNCHANGED <<transformVars, env, dbActs, outcomes, table0, table, run, batch,
                   idx, pending, writes, identity, snapTaken, snapIds,
                   inserted_count, result, missed>>

\* The loop ends, fetch_events returns events and sync_posthog_events calls
\* store_events(events)
FetchReturn ==
    /\ pc[Main] = "fetch"
    /\ next_url = ""
    /\ StoreBegin(Main, events)
    /\ UNCHANGED <<transformVars, env, requests, served, events, next_url, outcomes,
                   table0, table, run, err, result>>

\* The process has ended; main.py is started again with the same arguments
\* and environment.
Rerun ==
    /\ pc[Main] \in {"done", "failed", "config_error"}
    /\ run[Main] < MaxRuns
    /\ outcomes' = Append(outcomes, [result |-> result[Main], err |-> err[Main]])
    /\ table0' = table
    /\ run' = [run EXCEPT ![Main] = @ + 1]
    /\ pc' = [pc EXCEPT ![Main] = "start"]
    /\ err' = [err EXCEPT ![Main] = ""]
    /\ result' = [result EXCEPT ![Main] = -1]
    /\ dbActs' = [dbActs EXCEPT ![Main] = {}]
    /\ requests' = <<>>
    /\ events' = <<>>
    /\ next_url' = ""
    /\ batch' = [batch EXCEPT ![Main] = <<>>]
    /\ idx' = [idx EXCEPT ![Main] = 1]
    /\ inserted_count' = [inserted_count EXCEPT ![Main] = 0]
    /\ identity' = [identity EXCEPT ![Main] = {}]
    /\ snapTaken' = [snapTaken EXCEPT ![Main] = FALSE]
    /\ snapIds' = [snapIds EXCEPT ![Main] = {}]
    /\ missed' = [missed EXCEPT ![Main] = {}]
    /\ UNCHANGED <<transformVars, env, served, table, pending, writes>>

\* store_events called directly with a batch
Call(p) ==
    /\ pc[p] = "ready"
    /\ \E b \in Batches : StoreBegin(p, b)
    /\ UNCHANGED <<transformVars, env, requests, served, events, next_url, outcomes,
                   table0, table, run, err, result>>

\* transform_event applied to the input event
Transform ==
    /\ tpc = "in"
    /\ tOut' = transform_event(evIn, clock)
    /\ tpc' = IF transform_event(evIn, clock).ok THEN "out" ELSE "raised"
    /\ UNCHANGED <<clock, evIn, processVars, storeVars>>

(***************************************************************************)
(* Specifications                                                          *)
(***************************************************************************)
InitStore ==
    /\ run = [p \in Procs |-> 1]
    /\ batch = [p \in Procs |-> <<>>]
    /\ idx = [p \in Procs |-> 1]
    /\ pending = [p \in Procs |-> <<>>]
    /\ writes = [p \in Procs |-> {}]
    /\ identity = [p \in Procs |-> {}]
    /\ snapTaken = [p \in Procs |-> FALSE]
    /\ snapIds = [p \in Procs |-> {}]
    /\ inserted_count = [p \in Procs |-> 0]
    /\ err = [p \in Procs |-> ""]
    /\ result = [p \in Procs |-> -1]
    /\ missed = [p \in Procs |-> {}]
    /\ dbActs = [p \in Procs |-> {}]
    /\ requests = <<>>
    /\ served = <<>>
    /\ events = <<>>
    /\ next_url = ""
    /\ outcomes = <<>>

InitIdleTransform ==
    /\ clock = 0
    /\ evIn = EvB1
    /\ tOut = [ok |-> FALSE, err |-> ""]
    /\ tpc = "idle"

\* One process runs main.py on an empty table, under any environment.
Init ==
    /\ InitIdleTransform
    /\ InitStore
    /\ env \in SUBSET RequiredEnv
    /\ table = {}
    /\ table0 = {}
    /\ pc = [p \in Procs |-> IF p = Main THEN "start" ELSE "off"]

Next ==
    \/ ImportSetup
    \/ SyncStart
    \/ FetchPage
    \/ FetchReturn
    \/ Rerun
    \/ \E p \in Procs : Iterate(p)
    \/ \E p \in Procs : Flush(p)
    \/ \E p \in Procs : Select(p)
    \/ \E p \in Procs : Commit(p)
    \/ \E p \in Procs : ConnectionLost(p)

Spec == Init /\ [][Next]_vars

\* Two processes call store_events on one empty table, one after the other
\* or concurrently.
InitConc ==
    /\ InitIdleTransform
    /\ InitStore
    /\ env = RequiredEnv
    /\ table = {}
    /\ table0 = {}
    /\ pc = [p \in Procs |-> "ready"]

NextConc ==
    \/ \E p \in Procs : Call(p)
    \/ \E p \in Procs : Iterate(p)
    \/ \E p \in Procs : Flush(p)
    \/ \E p \in Procs : Select(p)
    \/ \E p \in Procs : Commit(p)
    \/ \E p \in Procs : ConnectionLost(p)
    \/ \E p \in Procs : DeadlockAbort(p)

SpecConc == InitConc /\ [][NextConc]_vars

\* transform_event on one raw event at some time
InitTransform ==
    /\ InitStore
    /\ env = RequiredEnv
    /\ table = {}
    /\ table0 = {}
    /\ pc = [p \in Procs |-> "off"]
    /\ clock \in 0..MaxClock
    /\ evIn \in RawEvents
    /\ tOut = [ok |-> FALSE, err |-> ""]
    /\ tpc = "in"

NextTransform == Transform

SpecTransform == InitTransform /\ [][NextTransform]_vars

(***************************************************************************)
(* Claims about transform_event (SpecTransform)                            *)
(***************************************************************************)
\* The input event's own text property, read off the raw event
HasElText == evIn.properties.k = "val" /\ "$el_text" \in DOMAIN evIn.properties.v

ElTextValue == IF evIn.properties.v["$el_text"].k = "val"
               THEN evIn.properties.v["$el_text"]
               ELSE Null

\* The text of the input event's first element descriptor (null if none)
FirstElText ==
    IF /\ evIn.elements.k = "val"
       /\ Len(evIn.elements.v) > 0
       /\ "text" \in DOMAIN evIn.elements.v[1]
       /\ evIn.elements.v[1]["text"].k = "val"
    THEN evIn.elements.v[1]["text"]
    ELSE Null

\* C9 as stated: whenever the event's properties contain $el_text,
\* element_text is that property's value.
C9_TextPropertyAlwaysWins ==
    (tpc = "out" /\ HasElText) => tOut.rec.element_text = ElTextValue

\* C9 amended: a $el_text that is a non-empty string is element_text; when
\* $el_text is absent, null or the empty string, element_text is the first
\* element descriptor's text (null if there is none).
C9_TextPrecedence ==
    tpc = "out" =>
        IF HasElText /\ ElTextValue.k = "val" /\ ElTextValue.v # ""
        THEN tOut.rec.element_text = ElTextValue
        ELSE tOut.rec.element_text = FirstElText

\* C9 witness: both texts present and non-empty, the property's text is used
C9_Witness ==
    /\ tpc = "out"
    /\ HasElText
    /\ ElTextValue = Val("Buy")
    /\ FirstElText = Val("Click")
    /\ tOut.rec.element_text = Val("Buy")

\* C10: an event with an id and no timestamp, no (or null) properties and no
\* (or null, or empty) elements transforms without error to a record with
\* that id, the current time as timestamp, every optional column null and
\* raw_data the non-empty serialization of the whole event.
C10_TransformTotality ==
    ( /\ tpc # "in"
      /\ evIn.id.k = "val"
      /\ evIn.timestamp.k = "absent"
      /\ evIn.properties.k \in {"absent", "null"}
      /\ evIn.elements.k \in {"absent", "null"} \/ evIn.elements.v = <<>> )
    => /\ tpc = "out"
       /\ tOut.ok
       /\ tOut.rec.id = evIn.id
       /\ tOut.rec.timestamp.kind = "utcnow"
       /\ tOut.rec.timestamp.at = clock
       /\ \A c \in PropertyColumns : tOut.rec.cols[c] = Null
       /\ tOut.rec.element_text = Null
       /\ tOut.rec.element_tag = Null
       /\ tOut.rec.element_href = Null
       /\ tOut.rec.raw_data = json_dumps(evIn)
       /\ Len(tOut.rec.raw_data) > 2

\* C10 witness: such an event, without distinct_id either, at a time after 0
C10_Witness ==
    /\ tpc = "out"
    /\ evIn.id = Val("a")
    /\ evIn.distinct_id.k = "absent"
    /\ evIn.timestamp.k = "absent"
    /\ evIn.properties.k = "null"
    /\ evIn.elements.k = "val"
    /\ evIn.elements.v = <<>>
    /\ clock = MaxClock
    /\ tOut.rec.timestamp.at = MaxClock

(***************************************************************************)
(* Claims about store_events under concurrency (SpecConc)                  *)
(***************************************************************************)
Finished(p) == pc[p] \in {"done", "failed"}

\* Failures that have nothing to do with another transaction's rows
OwnFailures == {"ValueError", "IntegrityError:1048", "OperationalError:2013"}

\* C5: a call that has not committed has no row in the table, whatever it
\* staged or flushed; a failed call has rolled back and ends with the
\* exception, not with a count.
C5_StoreAtomicity ==
    \A p \in Procs :
        /\ pc[p] # "done" => RowsBy(p, run[p]) = {}
        /\ pc[p] = "failed" =>
              /\ err[p] # ""
              /\ result[p] = -1
              /\ writes[p] = {}

\* C5 witness: a call failed in the flush of its second record, after the
\* first one had been inserted, and the table is still empty
C5_Witness ==
    \E p \in Procs :
        /\ pc[p] = "failed"
        /\ err[p] = "IntegrityError:1048"
        /\ missed[p] = {Val("a"), Val("b")}
        /\ table = {}

\* C6: the value store_events returns is the number of rows the call added
\* to the table.
C6_InsertedCount ==
    \A p \in Procs :
        pc[p] = "done" =>
            /\ result[p] = Cardinality(RowsBy(p, run[p]))
            /\ err[p] = ""

\* C6 witness: a batch of two events with one id, not stored before, returns 1
C6_Witness ==
    \E p \in Procs :
        /\ pc[p] = "done"
        /\ Len(batch[p]) = 2
        /\ batch[p][1].id = batch[p][2].id
        /\ batch[p][1] # batch[p][2]
        /\ missed[p] # {}
        /\ result[p] = 1

\* The race of C8: both calls passed the existence check for id x and both
\* have ended
Raced(p, q, x) == p # q /\ x \in missed[p] /\ x \in missed[q] /\ Finished(p) /\ Finished(q)

\* What C8 says of the call p that raced with q, when its failure has one of
\* the kinds in `kinds`
RaceOutcome(p, q, x, kinds) ==
    /\ Cardinality({r \in table : r.rec.id = x}) <= 1
    /\ pc[q] = "done" =>
          /\ pc[p] = "failed"
          /\ RowsBy(p, run[p]) = {}
          /\ err[p] \in OwnFailures \cup kinds

\* C8 as stated: the call that loses the race fails with the constraint
\* violation (unless it failed for a reason of its own).
C8_LoserGetsConstraintViolation ==
    \A p, q \in Procs : \A x \in missed[p] :
        Raced(p, q, x) => RaceOutcome(p, q, x, {"IntegrityError:1062"})

\* C8 amended: at most one record for the id is committed; the call that
\* loses fails, with the constraint violation or, when the two transactions
\* wait for each other's rows, with the engine's deadlock error, and none of
\* its batch is in the table.
C8_LoserFailsAndRollsBack ==
    \A p, q \in Procs : \A x \in missed[p] :
        Raced(p, q, x) =>
            RaceOutcome(p, q, x, {"IntegrityError:1062", "OperationalError:1213"})

\* C8 witness: the loser had staged a second id, which is not in the table
C8_Witness ==
    \E p, q \in Procs :
        /\ Raced(p, q, Val("a"))
        /\ pc[q] = "done"
        /\ err[p] = "IntegrityError:1062"
        /\ missed[p] = {Val("a"), Val("b")}
        /\ Ids(table) = {Val("a")}
        /\ RowsBy(q, run[q]) = table

(***************************************************************************)
(* Claims about one process and its re-runs (Spec)                         *)
(***************************************************************************)
\* fetch_events has returned and store_events was called in this run
FetchReturned == "session" \in dbActs[Main]

\* The provider answered request i with a non-success status
ErrorAt(i) == served[i].status >= 400

\* The results of pages 1..k, concatenated in page order
RECURSIVE ConcatResults(_)
ConcatResults(k) == IF k = 0 THEN <<>> ELSE ConcatResults(k - 1) \o served[k].results

\* The run before this one returned a count
PreviousRunSucceeded ==
    /\ Len(outcomes) >= 1
    /\ outcomes[Len(outcomes)].err = ""
    /\ outcomes[Len(outcomes)].result >= 0

\* C1: in a run that follows a successful run with the same provider
\* answers, the table stays as it was when the run started, the run returns
\* 0, and it fails only if the connection is lost.
C1_Idempotence ==
    PreviousRunSucceeded =>
        /\ table = table0
        /\ pc[Main] = "done" => result[Main] = 0
        /\ pc[Main] = "failed" => err[Main] = "OperationalError:2013"

\* C1 witness: the first run inserted two records from two pages, the second
\* run fetched the same two pages and returned 0
C1_Witness ==
    /\ Len(outcomes) = 1
    /\ outcomes[1].result = 2
    /\ outcomes[1].err = ""
    /\ pc[Main] = "done"
    /\ Len(requests) = 2
    /\ Len(batch[Main]) >= 3
    /\ result[Main] = 0

\* C2: the table never holds two rows with one id, and no run fails with a
\* duplicate-key violation: duplicates, stored earlier or earlier in the
\* batch, are skipped and the batch commits.
C2_Dedup ==
    /\ \A r1, r2 \in table : r1.rec.id = r2.rec.id => r1 = r2
    /\ err[Main] # "IntegrityError:1062"
    /\ (FetchReturned /\ pc[Main] = "failed") => err[Main] = "OperationalError:2013"

\* C2 witness: a first run whose batch holds the event with id "a" twice,
\* on two pages, and an event with id "b" committed one row for each id
C2_Witness ==
    /\ run[Main] = 1
    /\ pc[Main] = "done"
    /\ batch[Main] = <<EvA1, EvB1, EvA1>>
    /\ Cardinality(table) = 2
    /\ Ids(table) = {Val("a"), Val("b")}

\* C3: when fetch_events has returned after k requests, every one of the k
\* answers was a success, pages 1..k-1 carried a cursor and page k none, and
\* the events returned are the pages' results concatenated in page order;
\* while it runs, the events accumulated are those of the pages requested so
\* far and every page before the last requested one carried a cursor.
C3_PaginationCompleteness ==
    /\ \A i \in 1..(Len(requests) - 1) : ~ErrorAt(i) /\ served[i].next # ""
    /\ pc[Main] = "fetch" =>
          /\ events = ConcatResults(Len(requests))
          /\ \A i \in 1..Len(requests) : ~ErrorAt(i)
    /\ FetchReturned =>
          /\ Len(requests) >= 1
          /\ \A i \in 1..Len(requests) : ~ErrorAt(i)
          /\ served[Len(requests)].next = ""
          /\ batch[Main] = ConcatResults(Len(requests))

\* C3 witness: MaxPages full pages fetched and returned in order
C3_Witness ==
    /\ FetchReturned
    /\ Len(requests) = MaxPages
    /\ \A i \in 1..MaxPages : Len(served[i].results) = MaxPageLen
    /\ served[1].results # served[MaxPages].results
    /\ Len(batch[Main]) = MaxPages * MaxPageLen

\* C4: once a request of this run was answered with a non-success status,
\* that request is the last one, the run has failed with the HTTP error and
\* returned nothing, store_events was not called and the table is as it was
\* when the run started.
C4_FetchFailureAllOrNothing ==
    \A i \in 1..Len(requests) :
        ErrorAt(i) =>
            /\ i = Len(requests)
            /\ pc[Main] = "failed"
            /\ err[Main] = "HTTPError"
            /\ result[Main] = -1
            /\ ~FetchReturned
            /\ batch[Main] = <<>>
            /\ table = table0

\* C4 witness: the second page failed after a first page that carried events
C4_Witness ==
    /\ Len(requests) = 2
    /\ ErrorAt(2)
    /\ Len(events) = MaxPageLen
    /\ pc[Main] = "failed"
    /\ err[Main] = "HTTPError"

\* C7 as stated: a run that ends in a configuration error has sent no HTTP
\* request and has done nothing with the database.
C7_ConfigErrorBeforeAllIO ==
    pc[Main] = "config_error" => (requests = <<>> /\ dbActs[Main] = {})

\* C11 as stated: the query parameters go with the first request only, every
\* later request goes to the cursor of the previous response without
\* parameters, whatever the cursor is, and no request follows a response
\* without cursor.
C11_CursorFollowing ==
    \A i \in 1..Len(requests) :
        /\ requests[i].params = (i = 1)
        /\ i = 1 => requests[i].url = URL0
        /\ i > 1 => /\ requests[i].url = served[i - 1].next
                    /\ served[i - 1].next # ""

\* C12: a step never removes or changes a row of the table; the rows it
\* adds carry ids the table did not hold.
C12_StoredRecordsImmutable ==
    [][ /\ \A r \in table : r \in table'
        /\ \A r \in table' \ table : r.rec.id \notin Ids(table) ]_vars

\* C12 witness: a call whose one event has id "a" found the row another
\* call stored for "a" from a different payload, returned 0, and that row is
\* the table.
C12_Witness ==
    \E p, q \in Procs :
        /\ p # q
        /\ pc[p] = "done"
        /\ batch[p] = <<EvA2>>
        /\ result[p] = 0
        /\ pc[q] = "done"
        /\ batch[q] = <<EvA1>>
        /\ table = {Row(transform_event(EvA1, clock).rec, q, run[q], 1)}
        /\ transform_event(EvA2, clock).rec # transform_event(EvA1, clock).rec

====
